---- MODULE Spec2Model ----
(***************************************************************************)
(* Velocity governor of src/main.py: the Limiter (constraint, check_limit), *)
(* the Profiler (make_simple_profile) and the control loop of main().       *)
(*                                                                          *)
(* Velocities are fixed-point integers in thousandths (0.26 m/s = 260,      *)
(* 0.628 rad/s = 628), so that the halved step sizes 0.1 and 0.314 are      *)
(* exact.                                                                   *)
(***************************************************************************)
EXTENDS Integers, Sequences, FiniteSets, TLC

\* ------------------------------------------------------------------ bounds
\* longest command list enumerated besides the list of the source
MaxCmds == 3
\* largest magnitude of a velocity handed to the Limiter
MaxVel == 2000
\* largest magnitude of a value handed to the Profiler
MaxVal == 5
\* largest magnitude of a step handed to the Profiler
MaxSlop == 3
\* number of Profiler calls in a row: more than the widest gap needs
MaxCalls == 2 * MaxVal + 2

\* --------------------------------------------------------- program constants
WAFFLE_MAX_LIN_VEL == 260
WAFFLE_MAX_ANG_VEL == 1820
LIN_VEL_STEP_SIZE == 200
ANG_VEL_STEP_SIZE == 628

\* the value of a Python function that ends without a return statement
None == "None"

VARIABLES
    \* main(): the locals of the control loop
    target_linear_velocity,
    target_angular_velocity,
    control_linear_velocity,
    control_angular_velocity,
    commands,       \* the command list
    idx,            \* position of the for loop in commands (1-based)
    pc,             \* "loop", "except", "finally", "done"
    pending,        \* the exception in flight: "none", "Exception", "KeyboardInterrupt"
    published,      \* the Twist messages handed to pub.publish, in order
    \* one call of check_limit
    type_of_velocity,
    velocity_value,
    limited,        \* what check_limit returned
    relimited,      \* what check_limit returned for its own result
    lim_pc,         \* "call", "returned", "again"
    \* repeated calls of make_simple_profile with a fixed target and step
    output,         \* the running control value
    input,          \* the target
    slop,           \* the step
    output0,        \* the control value before the first call
    calls,          \* number of calls made
    outcome         \* "none", "returned", "InvalidStepSize"

loopVars == <<target_linear_velocity, target_angular_velocity,
              control_linear_velocity, control_angular_velocity,
              commands, idx, pc, pending, published>>
limVars == <<type_of_velocity, velocity_value, limited, relimited, lim_pc>>
profVars == <<output, input, slop, output0, calls, outcome>>
vars == <<loopVars, limVars, profVars>>

\* ------------------------------------------------------------ pure helpers
Abs(x) == IF x < 0 THEN -x ELSE x
min(a, b) == IF a < b THEN a ELSE b
max(a, b) == IF a > b THEN a ELSE b
CeilDiv(a, b) == (a + b - 1) \div b

\* ------------------------------------------------------------------ Limiter
\* the first comparison turned round
constraint_flipped(inp, lo, hi) ==
    IF inp > lo THEN lo
    ELSE IF inp > hi THEN hi
    ELSE inp

constraint(inp, lo, hi) ==
    IF inp < lo THEN lo
    ELSE IF inp > hi THEN hi
    ELSE inp

\* the linear branch clamps to the angular bound
check_limit_wrong_bound(kind, velocity) ==
    IF kind = "angular"
    THEN constraint(velocity, -WAFFLE_MAX_ANG_VEL, WAFFLE_MAX_ANG_VEL)
    ELSE IF kind = "linear"
    THEN constraint(velocity, -WAFFLE_MAX_ANG_VEL, WAFFLE_MAX_ANG_VEL)
    ELSE None

check_limit(kind, velocity) ==
    IF kind = "angular"
    THEN constraint(velocity, -WAFFLE_MAX_ANG_VEL, WAFFLE_MAX_ANG_VEL)
    ELSE IF kind = "linear"
    THEN constraint(velocity, -WAFFLE_MAX_LIN_VEL, WAFFLE_MAX_LIN_VEL)
    ELSE None

\* ----------------------------------------------------------------- Profiler
\* the step applied twice
make_simple_profile_double(out, inp, slp) ==
    IF inp > out THEN min(inp, out + 2 * slp)
    ELSE IF inp < out THEN max(inp, out - 2 * slp)
    ELSE inp

\* the step applied without looking at the target
make_simple_profile_overshoot(out, inp, slp) ==
    IF inp > out THEN out + slp
    ELSE IF inp < out THEN out - slp
    ELSE inp

\* the step halved once more, in whole units
make_simple_profile_halved(out, inp, slp) ==
    IF inp > out THEN min(inp, out + slp \div 2)
    ELSE IF inp < out THEN max(inp, out - slp \div 2)
    ELSE inp

make_simple_profile(out, inp, slp) ==
    IF inp > out THEN min(inp, out + slp)
    ELSE IF inp < out THEN max(inp, out - slp)
    ELSE inp

\* ------------------------------------------------------------- control loop
Twist(lx, az) ==
    [linear |-> [x |-> lx, y |-> 0, z |-> 0],
     angular |-> [x |-> 0, y |-> 0, z |-> az]]

\* the last control values sent instead of zeros
FinalTwist_stale(cl, ca) == Twist(cl, ca)

\* the message built in the finally block
FinalTwist(cl, ca) == Twist(0, 0)

DemoCommands == <<"Straight", "Left", "Right", "Left", "Back", "Stop">>
\* the five commands of the source and one it does not know
CommandNames == {"Straight", "Back", "Left", "Right", "Stop", "Spin"}

CommandLists ==
    {DemoCommands} \cup UNION {[1..n -> CommandNames] : n \in 0..MaxCmds}

\* Straight without the call of check_limit
Handle_unclamped(command, tl, ta, cl, ca) ==
    IF command = "Straight" THEN
        [tl |-> tl + LIN_VEL_STEP_SIZE,
         ta |-> ta, cl |-> cl, ca |-> ca]
    ELSE IF command = "Back" THEN
        [tl |-> check_limit("linear", 0 - LIN_VEL_STEP_SIZE),
         ta |-> 0, cl |-> 0, ca |-> 0]
    ELSE IF command = "Left" THEN
        [tl |-> tl, ta |-> check_limit("angular", 0 + ANG_VEL_STEP_SIZE),
         cl |-> cl, ca |-> 0]
    ELSE IF command = "Right" THEN
        [tl |-> tl, ta |-> check_limit("angular", 0 - ANG_VEL_STEP_SIZE),
         cl |-> cl, ca |-> 0]
    ELSE IF command = "Stop" THEN
        [tl |-> 0, ta |-> 0, cl |-> 0, ca |-> 0]
    ELSE
        [tl |-> tl, ta |-> ta, cl |-> cl, ca |-> ca]

\* Left, Right and Back without the assignment of 0.0 to the target: the step
\* is added to the previous target
Handle_relative(command, tl, ta, cl, ca) ==
    IF command = "Straight" THEN
        [tl |-> check_limit("linear", tl + LIN_VEL_STEP_SIZE),
         ta |-> ta, cl |-> cl, ca |-> ca]
    ELSE IF command = "Back" THEN
        [tl |-> check_limit("linear", tl - LIN_VEL_STEP_SIZE),
         ta |-> 0, cl |-> 0, ca |-> 0]
    ELSE IF command = "Left" THEN
        [tl |-> tl, ta |-> check_limit("angular", ta + ANG_VEL_STEP_SIZE),
         cl |-> cl, ca |-> 0]
    ELSE IF command = "Right" THEN
        [tl |-> tl, ta |-> check_limit("angular", ta - ANG_VEL_STEP_SIZE),
         cl |-> cl, ca |-> 0]
    ELSE IF command = "Stop" THEN
        [tl |-> 0, ta |-> 0, cl |-> 0, ca |-> 0]
    ELSE
        [tl |-> tl, ta |-> ta, cl |-> cl, ca |-> ca]

\* Left and Right with the four assignments of Back: the linear axis is
\* reset too
Handle_reset_all(command, tl, ta, cl, ca) ==
    IF command = "Straight" THEN
        [tl |-> check_limit("linear", tl + LIN_VEL_STEP_SIZE),
         ta |-> ta, cl |-> cl, ca |-> ca]
    ELSE IF command = "Back" THEN
        [tl |-> check_limit("linear", 0 - LIN_VEL_STEP_SIZE),
         ta |-> 0, cl |-> 0, ca |-> 0]
    ELSE IF command = "Left" THEN
        [tl |-> 0, ta |-> check_limit("angular", 0 + ANG_VEL_STEP_SIZE),
         cl |-> 0, ca |-> 0]
    ELSE IF command = "Right" THEN
        [tl |-> 0, ta |-> check_limit("angular", 0 - ANG_VEL_STEP_SIZE),
         cl |-> 0, ca |-> 0]
    ELSE IF command = "Stop" THEN
        [tl |-> 0, ta |-> 0, cl |-> 0, ca |-> 0]
    ELSE
        [tl |-> tl, ta |-> ta, cl |-> cl, ca |-> ca]

\* the if/elif chain on the command: the four velocities after it
Handle(command, tl, ta, cl, ca) ==
    IF command = "Straight" THEN
        [tl |-> check_limit("linear", tl + LIN_VEL_STEP_SIZE),
         ta |-> ta, cl |-> cl, ca |-> ca]
    ELSE IF command = "Back" THEN
        [tl |-> check_limit("linear", 0 - LIN_VEL_STEP_SIZE),
         ta |-> 0, cl |-> 0, ca |-> 0]
    ELSE IF command = "Left" THEN
        [tl |-> tl, ta |-> check_limit("angular", 0 + ANG_VEL_STEP_SIZE),
         cl |-> cl, ca |-> 0]
    ELSE IF command = "Right" THEN
        [tl |-> tl, ta |-> check_limit("angular", 0 - ANG_VEL_STEP_SIZE),
         cl |-> cl, ca |-> 0]
    ELSE IF command = "Stop" THEN
        [tl |-> 0, ta |-> 0, cl |-> 0, ca |-> 0]
    ELSE
        [tl |-> tl, ta |-> ta, cl |-> cl, ca |-> ca]

\* the body of the for loop up to the call of pub.publish
Body(command) ==
    LET h == Handle(command, target_linear_velocity, target_angular_velocity,
                    control_linear_velocity, control_angular_velocity)
    IN  /\ target_linear_velocity' = h.tl
        /\ target_angular_velocity' = h.ta
        /\ control_linear_velocity' =
               make_simple_profile(h.cl, h.tl, LIN_VEL_STEP_SIZE \div 2)
        /\ control_angular_velocity' =
               make_simple_profile(h.ca, h.ta, ANG_VEL_STEP_SIZE \div 2)

LoopInit ==
    /\ target_linear_velocity = 0
    /\ target_angular_velocity = 0
    /\ control_linear_velocity = 0
    /\ control_angular_velocity = 0
    /\ commands \in CommandLists
    /\ idx = 1
    /\ pc = "loop"
    /\ pending = "none"
    /\ published = <<>>

\* the iteration with a second message: a zero Twist published before the
\* computed one, as a call of reset_velocity in the command branch would do
Cycle_with_reset ==
    /\ pc = "loop"
    /\ idx <= Len(commands)
    /\ Body(commands[idx])
    /\ published' = published \o
           <<Twist(0, 0),
             Twist(control_linear_velocity', control_angular_velocity')>>
    /\ idx' = idx + 1
    /\ UNCHANGED <<commands, pc, pending, limVars, profVars>>

\* one iteration of the for loop: command, profile, publish, sleep
Cycle ==
    /\ pc = "loop"
    /\ idx <= Len(commands)
    /\ Body(commands[idx])
    /\ published' = Append(published,
                           Twist(control_linear_velocity', control_angular_velocity'))
    /\ idx' = idx + 1
    /\ UNCHANGED <<commands, pc, pending, limVars, profVars>>

\* an iteration in which pub.publish raises: nothing reaches the transport
CycleFault ==
    /\ pc = "loop"
    /\ idx <= Len(commands)
    /\ Body(commands[idx])
    /\ pc' = "except"
    /\ pending' = "Exception"
    /\ UNCHANGED <<commands, idx, published, limVars, profVars>>

\* KeyboardInterrupt between two iterations (during time.sleep): it is not an
\* Exception, so the except clause is skipped and the finally block runs
Interrupt ==
    /\ pc = "loop"
    /\ pc' = "finally"
    /\ pending' = "KeyboardInterrupt"
    /\ UNCHANGED <<target_linear_velocity, target_angular_velocity,
                   control_linear_velocity, control_angular_velocity,
                   commands, idx, published, limVars, profVars>>

\* the for loop has consumed the list
LoopExit ==
    /\ pc = "loop"
    /\ idx > Len(commands)
    /\ pc' = "finally"
    /\ UNCHANGED <<target_linear_velocity, target_angular_velocity,
                   control_linear_velocity, control_angular_velocity,
                   commands, idx, pending, published, limVars, profVars>>

\* except Exception as e: print(e)
Except ==
    /\ pc = "except"
    /\ pc' = "finally"
    /\ pending' = "none"
    /\ UNCHANGED <<target_linear_velocity, target_angular_velocity,
                   control_linear_velocity, control_angular_velocity,
                   commands, idx, published, limVars, profVars>>

\* the stop message published twice
Finally_twice ==
    /\ pc = "finally"
    /\ published' = published \o <<Twist(0, 0), Twist(0, 0)>>
    /\ pc' = "done"
    /\ UNCHANGED <<target_linear_velocity, target_angular_velocity,
                   control_linear_velocity, control_angular_velocity,
                   commands, idx, pending, limVars, profVars>>

\* finally: publish the stop message
Finally ==
    /\ pc = "finally"
    /\ published' = Append(published,
                           FinalTwist(control_linear_velocity, control_angular_velocity))
    /\ pc' = "done"
    /\ UNCHANGED <<target_linear_velocity, target_angular_velocity,
                   control_linear_velocity, control_angular_velocity,
                   commands, idx, pending, limVars, profVars>>

\* the Limiter and the Profiler are idle while the control loop is checked
LimIdle ==
    /\ type_of_velocity = "linear"
    /\ velocity_value = 0
    /\ limited = 0
    /\ relimited = 0
    /\ lim_pc = "again"

ProfIdle ==
    /\ output = 0
    /\ input = 0
    /\ slop = 1
    /\ output0 = 0
    /\ calls = 0
    /\ outcome = "none"

LoopIdle ==
    /\ target_linear_velocity = 0
    /\ target_angular_velocity = 0
    /\ control_linear_velocity = 0
    /\ control_angular_velocity = 0
    /\ commands = <<>>
    /\ idx = 1
    /\ pc = "done"
    /\ pending = "none"
    /\ published = <<>>

Init == LoopInit /\ LimIdle /\ ProfIdle

Next ==
    \/ Cycle
    \/ CycleFault
    \/ Interrupt
    \/ LoopExit
    \/ Except
    \/ Finally

Spec == Init /\ [][Next]_vars

\* main() is one sequential thread: every statement, the five-second sleep
\* included, returns, so a step that is possible is eventually taken
SpecFair == Init /\ [][Next]_vars /\ WF_vars(Next)

\* ------------------------------------------------- the Limiter on its own
\* the two kinds check_limit knows and one it does not
VelocityTypes == {"linear", "angular", "both"}

LimInit ==
    /\ type_of_velocity \in VelocityTypes
    /\ velocity_value \in -MaxVel..MaxVel
    /\ limited = None
    /\ relimited = None
    /\ lim_pc = "call"

CallCheckLimit ==
    /\ lim_pc = "call"
    /\ limited' = check_limit(type_of_velocity, velocity_value)
    /\ lim_pc' = "returned"
    /\ UNCHANGED <<type_of_velocity, velocity_value, relimited, loopVars, profVars>>

CallCheckLimitAgain ==
    /\ lim_pc = "returned"
    /\ relimited' = check_limit(type_of_velocity, limited)
    /\ lim_pc' = "again"
    /\ UNCHANGED <<type_of_velocity, velocity_value, limited, loopVars, profVars>>

LimNext ==
    \/ CallCheckLimit
    \/ CallCheckLimitAgain

InitLimiter == LimInit /\ LoopIdle /\ ProfIdle

SpecLimiter == InitLimiter /\ [][LimNext]_vars

\* ------------------------------------------------ the Profiler on its own
ProfInit ==
    /\ output \in -MaxVal..MaxVal
    /\ input \in -MaxVal..MaxVal
    /\ slop \in -MaxSlop..MaxSlop
    /\ output0 = output
    /\ calls = 0
    /\ outcome = "none"

\* output = make_simple_profile(output, input, slop): the call returns a
\* number whatever the step is
Advance ==
    /\ calls < MaxCalls
    /\ output' = make_simple_profile(output, input, slop)
    /\ calls' = calls + 1
    /\ outcome' = "returned"
    /\ UNCHANGED <<input, slop, output0, loopVars, limVars>>

ProfNext == Advance

InitProfiler == ProfInit /\ LoopIdle /\ LimIdle

SpecProfiler == InitProfiler /\ [][ProfNext]_vars

\* ===================================================================== claims

\* C1: while the control loop runs, two consecutive commands handed to the
\* transport differ by at most the per-cycle step on each axis (linear 0.1,
\* angular 0.314).
C1_NoStepDiscontinuity ==
    pc = "loop" =>
        \A i \in 1..(Len(published) - 1) :
            /\ Abs(published[i + 1].linear.x - published[i].linear.x)
                   <= LIN_VEL_STEP_SIZE \div 2
            /\ Abs(published[i + 1].angular.z - published[i].angular.z)
                   <= ANG_VEL_STEP_SIZE \div 2

\* C2: when main() has left the try statement, by whichever path, the last
\* command handed to the transport is the zero command on all six components.
C2_LastCommandZero ==
    pc = "done" =>
        /\ Len(published) >= 1
        /\ published[Len(published)] =
               [linear |-> [x |-> 0, y |-> 0, z |-> 0],
                angular |-> [x |-> 0, y |-> 0, z |-> 0]]

\* C2 witness: the loop was interrupted right after a non-zero command
C2_InterruptedWhileMoving ==
    /\ pc = "done"
    /\ pending = "KeyboardInterrupt"
    /\ Len(published) >= 2
    /\ published[Len(published) - 1].linear.x # 0
    /\ published[Len(published) - 1].angular.z # 0

C4_LimiterInBounds ==
    lim_pc # "call" =>
        /\ type_of_velocity = "linear" =>
               /\ limited >= -WAFFLE_MAX_LIN_VEL
               /\ limited <= WAFFLE_MAX_LIN_VEL
               /\ velocity_value = 500 => limited = 260
               /\ velocity_value = -500 => limited = -260
        /\ type_of_velocity = "angular" =>
               /\ limited >= -WAFFLE_MAX_ANG_VEL
               /\ limited <= WAFFLE_MAX_ANG_VEL

\* C4 witness: a linear request of 0.5 was clamped
C4_ClampedLinear ==
    /\ lim_pc = "returned"
    /\ type_of_velocity = "linear"
    /\ velocity_value = 500
    /\ limited = 260

\* C5: a velocity already within the bound of its kind is returned
\* unchanged, and check_limit applied to its own result returns that result.
C5_LimiterIdentityInRange ==
    /\ (lim_pc # "call" /\ type_of_velocity = "linear"
          /\ velocity_value >= -WAFFLE_MAX_LIN_VEL
          /\ velocity_value <= WAFFLE_MAX_LIN_VEL) => limited = velocity_value
    /\ (lim_pc # "call" /\ type_of_velocity = "angular"
          /\ velocity_value >= -WAFFLE_MAX_ANG_VEL
          /\ velocity_value <= WAFFLE_MAX_ANG_VEL) => limited = velocity_value
    /\ (lim_pc = "again" /\ type_of_velocity \in {"linear", "angular"})
          => relimited = limited

\* C5 witness: an in-range linear velocity went through check_limit twice
C5_InRangeTwice ==
    /\ lim_pc = "again"
    /\ type_of_velocity = "linear"
    /\ velocity_value = 100
    /\ limited = 100
    /\ relimited = 100

\* C6: with a positive step, one call of make_simple_profile moves the
\* control value by at most the step.
C6_ProfilerStepBounded ==
    [][(calls' = calls + 1 /\ slop > 0) => Abs(output' - output) <= slop]_vars

\* C6 witness: the target was further away than one step and the value moved
C6_MovedTowardsFarTarget ==
    /\ calls = 1
    /\ slop > 0
    /\ Abs(input - output0) > slop
    /\ Abs(output - output0) = slop

\* C7: with a positive step, the result of make_simple_profile lies between
\* the previous control value and the target, both included.
C7_ProfilerBetween ==
    [][(calls' = calls + 1 /\ slop > 0) =>
          /\ min(output, input) <= output'
          /\ output' <= max(output, input)]_vars

\* C7 witness: the target was nearer than one step and was hit exactly
C7_ReachedNearTarget ==
    /\ calls = 1
    /\ slop > 0
    /\ output0 # input
    /\ Abs(input - output0) < slop
    /\ output = input

C9_ReversalWalkedThroughZero ==
    [][(pc = "loop" /\ control_angular_velocity = ANG_VEL_STEP_SIZE
          /\ target_angular_velocity' = -ANG_VEL_STEP_SIZE)
         => control_angular_velocity' = ANG_VEL_STEP_SIZE \div 2]_vars

\* C10: a call of make_simple_profile with a step of zero or less is
\* rejected with InvalidStepSize.
C10_NonPositiveStepRejected ==
    (calls >= 1 /\ slop <= 0) => outcome = "InvalidStepSize"

\* C11: a call of check_limit with a kind other than "linear" and "angular"
\* is rejected: it never returns normally with no clamped value.
C11_UnknownKindRejected ==
    type_of_velocity \notin {"linear", "angular"} =>
        ~(lim_pc \in {"returned", "again"} /\ limited = None)

\* C12: in every cycle the control value of each axis becomes
\* make_simple_profile(c, t, step), with c the control value of the previous
\* cycle and t the target of this cycle.
C12_ControlIsProfilerStep ==
    [][(pc = "loop" /\ idx' = idx + 1) =>
          /\ control_linear_velocity' =
                 make_simple_profile(control_linear_velocity,
                                     target_linear_velocity',
                                     LIN_VEL_STEP_SIZE \div 2)
          /\ control_angular_velocity' =
                 make_simple_profile(control_angular_velocity,
                                     target_angular_velocity',
                                     ANG_VEL_STEP_SIZE \div 2)]_vars

\* C13: in every state of the control loop the linear target and control lie
\* within -0.26..0.26 and the angular target and control within -1.82..1.82,
\* and so does every command handed to the transport.
C13_WithinEnvelope ==
    /\ target_linear_velocity >= -WAFFLE_MAX_LIN_VEL
    /\ target_linear_velocity <= WAFFLE_MAX_LIN_VEL
    /\ control_linear_velocity >= -WAFFLE_MAX_LIN_VEL
    /\ control_linear_velocity <= WAFFLE_MAX_LIN_VEL
    /\ target_angular_velocity >= -WAFFLE_MAX_ANG_VEL
    /\ target_angular_velocity <= WAFFLE_MAX_ANG_VEL
    /\ control_angular_velocity >= -WAFFLE_MAX_ANG_VEL
    /\ control_angular_velocity <= WAFFLE_MAX_ANG_VEL
    /\ \A i \in 1..Len(published) :
          /\ published[i].linear.x >= -WAFFLE_MAX_LIN_VEL
          /\ published[i].linear.x <= WAFFLE_MAX_LIN_VEL
          /\ published[i].angular.z >= -WAFFLE_MAX_ANG_VEL
          /\ published[i].angular.z <= WAFFLE_MAX_ANG_VEL

\* C13 witness: two Straight commands in a row saturated the linear target
C13_LinearTargetSaturated ==
    /\ idx >= 3
    /\ commands[idx - 2] = "Straight"
    /\ commands[idx - 1] = "Straight"
    /\ target_linear_velocity = WAFFLE_MAX_LIN_VEL
    /\ Len(published) = idx - 1

\* C14: a cycle that processes Left leaves the angular target at +0.628, one
\* that processes Right at -0.628 and one that processes Back leaves the
\* linear target at -0.2, whatever the targets were before.
C14_AbsoluteTargets ==
    [][(pc = "loop" /\ idx <= Len(commands)
          /\ (idx' = idx + 1 \/ pc' = "except")) =>
          /\ commands[idx] = "Left" =>
                 target_angular_velocity' = ANG_VEL_STEP_SIZE
          /\ commands[idx] = "Right" =>
                 target_angular_velocity' = -ANG_VEL_STEP_SIZE
          /\ commands[idx] = "Back" =>
                 target_linear_velocity' = -LIN_VEL_STEP_SIZE]_vars

\* C14 witness: Right processed right after Left, the target is the opposite
\* turn and not zero
C14_RightAfterLeft ==
    /\ pc = "loop"
    /\ idx >= 3
    /\ commands[idx - 2] = "Left"
    /\ commands[idx - 1] = "Right"
    /\ target_angular_velocity = -ANG_VEL_STEP_SIZE

\* C15: a cycle that processes Left or Right leaves the linear target as it
\* was and moves the linear control one Profiler step on from its previous
\* value; a cycle that processes Straight does the same for the angular axis.
C15_OtherAxisUntouched ==
    [][(pc = "loop" /\ idx <= Len(commands)
          /\ (idx' = idx + 1 \/ pc' = "except")) =>
          /\ commands[idx] \in {"Left", "Right"} =>
                 /\ target_linear_velocity' = target_linear_velocity
                 /\ control_linear_velocity' =
                        make_simple_profile(control_linear_velocity,
                                            target_linear_velocity,
                                            LIN_VEL_STEP_SIZE \div 2)
          /\ commands[idx] = "Straight" =>
                 /\ target_angular_velocity' = target_angular_velocity
                 /\ control_angular_velocity' =
                        make_simple_profile(control_angular_velocity,
                                            target_angular_velocity,
                                            ANG_VEL_STEP_SIZE \div 2)]_vars

\* C15 witness: Left processed right after Straight, the linear control kept
\* ramping and reached its target
C15_LinearRampsDuringLeft ==
    /\ pc = "loop"
    /\ idx = 3
    /\ commands[1] = "Straight"
    /\ commands[2] = "Left"
    /\ target_linear_velocity = LIN_VEL_STEP_SIZE
    /\ control_linear_velocity = LIN_VEL_STEP_SIZE
    /\ control_angular_velocity = ANG_VEL_STEP_SIZE \div 2

\* C16: the loop hands exactly one command to the transport per processed
\* cycle and never reads past the end of the list; with the list of the
\* source and no fault, the commands are those of Straight, Left, Right, Left,
\* Back, Stop in this order followed by one zero command; and main() always
\* reaches its end.
C16_DemoRunAndTermination ==
    /\ [](/\ idx <= Len(commands) + 1
          /\ pc \in {"loop", "except", "finally"} => Len(published) = idx - 1
          /\ (pc = "done" /\ commands = DemoCommands
                /\ idx = Len(commands) + 1 /\ pending = "none") =>
                 published = <<Twist(100, 0), Twist(200, 314), Twist(200, -314),
                               Twist(200, 314), Twist(-100, 0), Twist(0, 0),
                               Twist(0, 0)>>)
    /\ <>(pc = "done")

\* C16 witness: the list of the source was processed to its end without a
\* fault and the shutdown command was sent
C16_DemoRunCompleted ==
    /\ pc = "done"
    /\ commands = DemoCommands
    /\ idx = 7
    /\ pending = "none"
    /\ Len(published) = 7

====
